---- MODULE Spec2Model ----
(***************************************************************************)
(* libcrio: a wrapper around the crictl command line tool (src/src/lib.rs). *)
(* The model covers the client configuration (Cli), the seven queries, the  *)
(* search-path append, the ImageCommand selector, the process invocation    *)
(* (run_command_text), the result decoder (slice_to_value) and the image    *)
(* matching scan.                                                           *)
(*                                                                          *)
(* Representation.  A Rust String that the code inspects character by       *)
(* character (ImageCommand text, the search path) is a sequence of pieces.  *)
(* The bytes a child process writes are a sequence of lexical tokens        *)
(* [k, v]; a token of kind "byte" is a byte that is not valid UTF-8.        *)
(* A serde_json::Value is a record tagged by t.                             *)
(***************************************************************************)
EXTENDS Integers, Sequences, FiniteSets, TLC

VARIABLES bin_path, config_path, image_command, call, previous, running, appended,
          selector

vars == <<bin_path, config_path, image_command, call, previous, running, appended,
          selector>>

(***************************************************************************)
(* Bounds of the model.                                                     *)
(***************************************************************************)
MaxImages == 2
MaxItems == 2
MaxAppends == 3
MaxTail == 1
\* The bytes a pipe holds before its writer blocks (65536 in the test of
\* big data, scaled).
PipeBuf == 2

(***************************************************************************)
(* Option<String>                                                           *)
(***************************************************************************)
None == [some |-> FALSE]
Some(s) == [some |-> TRUE, v |-> s]

(***************************************************************************)
(* Result<T, E>                                                             *)
(***************************************************************************)
Ok(v) == [ok |-> TRUE, value |-> v]
Err(e) == [ok |-> FALSE, error |-> e]

(***************************************************************************)
(* serde_json::Value                                                        *)
(***************************************************************************)
JNull == [t |-> "null"]
JStr(s) == [t |-> "string", s |-> s]
JNum(n) == [t |-> "number", n |-> n]
JArr(a) == [t |-> "array", a |-> a]
JObj(o) == [t |-> "object", o |-> o]
NoFields == [k \in {} |-> JNull]

\* Value::index by a field name: Null unless the value is an object that
\* has the field.
Index(v, key) ==
    IF v.t = "object" /\ key \in DOMAIN v.o THEN v.o[key] ELSE JNull

\* Value::as_array
as_array(v) == IF v.t = "array" THEN Some(v.a) ELSE None

\* Value::as_str
as_str(v) == IF v.t = "string" THEN Some(v.s) ELSE None

\* Option::unwrap_or_default on Option<&str>
unwrap_or_default(o) == IF o.some THEN o.v ELSE ""

\* Value::get(1) in place of Value::get(0): the second element.
get1(v) == IF v.t = "array" /\ Len(v.a) > 1 THEN Some(v.a[2]) ELSE None

\* Value::get(0): the first element of an array, None for anything else.
get0(v) == IF v.t = "array" /\ Len(v.a) > 0 THEN Some(v.a[1]) ELSE None

(***************************************************************************)
(* Bytes and text.  What a child writes to a pipe is a sequence of tokens. *)
(***************************************************************************)
P(c) == [k |-> "punct", v |-> c]
S(s) == [k |-> "str", v |-> s]
N(n) == [k |-> "num", v |-> n]
NullLit == [k |-> "lit", v |-> "null"]
WS == [k |-> "ws", v |-> "\n"]
Word(w) == [k |-> "word", v |-> w]
BadByte == [k |-> "byte", v |-> "\\xff"]

IsP(tk, c) == tk.k = "punct" /\ tk.v = c

\* <&[u8] as Read>::read_to_string: the bytes as text, or an error when
\* they are not valid UTF-8 (the String is then left as it was).
read_to_string(bytes) ==
    IF \E i \in 1..Len(bytes) : bytes[i].k = "byte"
    THEN Err("stream did not contain valid UTF-8")
    ELSE Ok(bytes)

\* str::as_bytes
as_bytes(text) == text

(***************************************************************************)
(* serde_json::from_slice: a recursive-descent parse of the tokens.  A     *)
(* parse step gives [ok, val, next] or [ok, msg, at]; at is the position   *)
(* of the offending token (serde_json reports it as line and column).      *)
(***************************************************************************)
Done(v, n) == [ok |-> TRUE, val |-> v, next |-> n]
Fail(m, i) == [ok |-> FALSE, msg |-> m, at |-> i]

RECURSIVE SkipWs(_, _)
SkipWs(toks, i) ==
    IF i <= Len(toks) /\ toks[i].k = "ws" THEN SkipWs(toks, i + 1) ELSE i

Put(o, key, val) ==
    [x \in DOMAIN o \cup {key} |-> IF x = key THEN val ELSE o[x]]

RECURSIVE ParseValue(_, _)
RECURSIVE ParseElems(_, _, _)
RECURSIVE ParseMembers(_, _, _)

ParseValue(toks, i0) ==
    LET i == SkipWs(toks, i0) IN
    IF i > Len(toks) THEN Fail("EOF while parsing a value", i)
    ELSE LET tk == toks[i]
             j == SkipWs(toks, i + 1)
         IN CASE tk.k = "str" -> Done(JStr(tk.v), i + 1)
              [] tk.k = "num" -> Done(JNum(tk.v), i + 1)
              [] tk.k = "lit" -> Done(JNull, i + 1)
              [] IsP(tk, "[") ->
                    IF j > Len(toks) THEN Fail("EOF while parsing a list", j)
                    ELSE IF IsP(toks[j], "]") THEN Done(JArr(<<>>), j + 1)
                    ELSE ParseElems(toks, j, <<>>)
              [] IsP(tk, "{") ->
                    IF j > Len(toks) THEN Fail("EOF while parsing an object", j)
                    ELSE IF IsP(toks[j], "}") THEN Done(JObj(NoFields), j + 1)
                    ELSE ParseMembers(toks, j, NoFields)
              [] OTHER -> Fail("expected value", i)

ParseElems(toks, i, acc) ==
    LET r == ParseValue(toks, i) IN
    IF ~r.ok THEN r
    ELSE LET j == SkipWs(toks, r.next)
             k == SkipWs(toks, j + 1)
             got == Append(acc, r.val)
         IN IF j > Len(toks) THEN Fail("EOF while parsing a list", j)
            ELSE IF IsP(toks[j], "]") THEN Done(JArr(got), j + 1)
            ELSE IF ~IsP(toks[j], ",") THEN Fail("expected comma or right bracket", j)
            ELSE IF k <= Len(toks) /\ IsP(toks[k], "]") THEN Fail("trailing comma", k)
            ELSE ParseElems(toks, k, got)

ParseMembers(toks, i, acc) ==
    IF i > Len(toks) THEN Fail("EOF while parsing an object", i)
    ELSE IF toks[i].k # "str" THEN Fail("key must be a string", i)
    ELSE LET c == SkipWs(toks, i + 1) IN
         IF c > Len(toks) THEN Fail("EOF while parsing an object", c)
         ELSE IF ~IsP(toks[c], ":") THEN Fail("expected colon", c)
         ELSE LET r == ParseValue(toks, c + 1) IN
              IF ~r.ok THEN r
              ELSE LET j == SkipWs(toks, r.next)
                       k == SkipWs(toks, j + 1)
                       got == Put(acc, toks[i].v, r.val)
                   IN IF j > Len(toks) THEN Fail("EOF while parsing an object", j)
                      ELSE IF IsP(toks[j], "}") THEN Done(JObj(got), j + 1)
                      ELSE IF ~IsP(toks[j], ",") THEN Fail("expected comma or right brace", j)
                      ELSE IF k <= Len(toks) /\ IsP(toks[k], "}")
                           THEN Fail("trailing comma", k)
                      ELSE ParseMembers(toks, k, got)

\* The whole input must be one value, followed by white space only.
from_slice(slice) ==
    LET r == ParseValue(slice, 1) IN
    IF ~r.ok THEN Err([msg |-> r.msg, at |-> r.at])
    ELSE LET j == SkipWs(slice, r.next) IN
         IF j <= Len(slice) THEN Err([msg |-> "trailing characters", at |-> j])
         ELSE Ok(r.val)

(***************************************************************************)
(* What the tool prints for a value: the text of a JSON document.  Used to *)
(* build the outputs of the child process.                                 *)
(***************************************************************************)
RECURSIVE Render(_)
RECURSIVE RenderElems(_, _)
RECURSIVE RenderMembers(_, _)

Render(v) ==
    CASE v.t = "null" -> <<NullLit>>
      [] v.t = "string" -> <<S(v.s)>>
      [] v.t = "number" -> <<N(v.n)>>
      [] v.t = "array" -> <<P("[")>> \o RenderElems(v.a, 1) \o <<P("]")>>
      [] v.t = "object" -> <<P("{")>> \o RenderMembers(v.o, DOMAIN v.o) \o <<P("}")>>

RenderElems(a, i) ==
    IF i > Len(a) THEN <<>>
    ELSE Render(a[i]) \o (IF i < Len(a) THEN <<P(",")>> ELSE <<>>) \o RenderElems(a, i + 1)

RenderMembers(o, keys) ==
    IF keys = {} THEN <<>>
    ELSE LET key == CHOOSE x \in keys : TRUE IN
         <<S(key), P(":")>> \o Render(o[key])
            \o (IF keys = {key} THEN <<>> ELSE <<P(",")>>)
            \o RenderMembers(o, keys \ {key})

(***************************************************************************)
(* ImageCommand: Debug, Display (through LowercaseFormatter) and FromStr.  *)
(* The text these work on is a sequence of characters.                     *)
(***************************************************************************)
ImageCommand == {"Img", "Images"}

Upper == <<"A", "D", "E", "F", "G", "I", "M", "S">>
Lower == <<"a", "d", "e", "f", "g", "i", "m", "s">>

\* char::to_lowercase
char_to_lowercase(ch) ==
    IF \E i \in 1..Len(Upper) : Upper[i] = ch
    THEN Lower[CHOOSE i \in 1..Len(Upper) : Upper[i] = ch]
    ELSE ch

\* str::to_lowercase
to_lowercase(str) == [i \in 1..Len(str) |-> char_to_lowercase(str[i])]

\* #[derive(Debug)]: the variant's name as written in the enum.
Debug(cmd) ==
    IF cmd = "Img" THEN <<"I", "m", "g">> ELSE <<"I", "m", "a", "g", "e", "s">>

\* LowercaseFormatter::write_str: every character is written lowercased.
write_str(out, str) == out \o [i \in 1..Len(str) |-> char_to_lowercase(str[i])]

\* <ImageCommand as Display>::fmt
fmt(cmd) == write_str(<<>>, Debug(cmd))

\* The error type of FromStr: the unit value.
Unit == <<>>

\* from_str without the to_lowercase: only the lowercase spellings parse.
from_str_exact(input) ==
    IF input = <<"i", "m", "g">> THEN Ok("Img")
    ELSE IF input = <<"i", "m", "a", "g", "e", "s">> THEN Ok("Images")
    ELSE Err(Unit)

\* <ImageCommand as FromStr>::from_str
from_str(input) ==
    LET low == to_lowercase(input) IN
    IF low = <<"i", "m", "g">> THEN Ok("Img")
    ELSE IF low = <<"i", "m", "a", "g", "e", "s">> THEN Ok("Images")
    ELSE Err(Unit)

\* A String made of the characters, as one argument of the command line.
RECURSIVE Str(_)
Str(chars) == IF chars = <<>> THEN "" ELSE Head(chars) \o Str(Tail(chars))

(***************************************************************************)
(* Cli                                                                     *)
(***************************************************************************)
\* Default::default: the documented search path, one piece per directory
\* and per separator.
DefaultBinPath ==
    <<"/bin", ":", "/sbin", ":", "/usr/bin", ":", "/usr/sbin", ":",
      "/usr/local/bin", ":", "/home/kubernetes/bin">>

Self == [bin_path |-> bin_path, config_path |-> config_path,
         image_command |-> image_command]

\* append_bin_path that always puts a separator in front.
internal_always_colon(path) == <<":">> \o path

\* str::starts_with(':')
starts_with_colon(path) == path # <<>> /\ path[1] = ":"

\* The String that append_bin_path pushes onto bin_path.
internal(path) == IF ~starts_with_colon(path) THEN <<":">> \o path ELSE path

(***************************************************************************)
(* The process invocation.  os is what the operating system and the child  *)
(* do with one spawn: whether it can be spawned and waited for, its exit   *)
(* status and the bytes it wrote to the two pipes.                          *)
(***************************************************************************)
\* slice_to_value that falls back to Value::default() when the parse fails.
slice_to_value_or_default(slice, args) ==
    LET r == from_slice(slice) IN
    IF r.ok THEN Ok(r.value) ELSE Ok(JNull)

slice_to_value(slice, args) ==
    LET r == from_slice(slice) IN
    IF r.ok THEN Ok(r.value)
    ELSE Err([msg |-> "failed to create output from slice for",
              args |-> args, diag |-> r.error])

\* Command::spawn: the child, or the error of the operating system.
spawn(args, os) ==
    IF os.spawn THEN Ok(os)
    ELSE Err([msg |-> "failed to execute crictl", args |-> args,
              cause |-> "No such file or directory (os error 2)"])

\* One read of a pipe gives what the pipe holds: at most PipeBuf bytes.
read(pipe) == SubSeq(pipe, 1, IF Len(pipe) < PipeBuf THEN Len(pipe) ELSE PipeBuf)

\* Reading a pipe until its end: the reads, one after the other.
RECURSIVE read_to_end(_, _)
read_to_end(pipe, buf) ==
    IF pipe = <<>> THEN buf
    ELSE LET chunk == read(pipe)
         IN read_to_end(SubSeq(pipe, Len(chunk) + 1, Len(pipe)), buf \o chunk)

\* drain by a single read after the child has exited: what did not fit in
\* the pipe is lost.
drain_one_read(pipe) == read(pipe)

\* wait_with_output drains a pipe of the child: everything the child wrote.
drain(pipe) == read_to_end(pipe, <<>>)

\* Child::wait_with_output: the exit status and the bytes of both pipes.
wait_with_output(args, cmd) ==
    IF cmd.wait
    THEN Ok([status |-> cmd.status, stdout |-> drain(cmd.stdout),
             stderr |-> drain(cmd.stderr)])
    ELSE Err([msg |-> "failed to execute crictl", args |-> args,
              cause |-> "Interrupted system call (os error 4)"])

\* check_stderr with the status test that the source has commented out.
check_stderr_and_status(args, waiter) ==
    LET err_str == read_to_string(waiter.stderr) IN
    IF ~err_str.ok
    THEN Err([msg |-> "stderr read error - failed to execute crictl",
              args |-> args, cause |-> err_str.error])
    ELSE IF err_str.value # <<>>
    THEN Err([msg |-> "stderr not empty - failed to execute crictl",
              args |-> args, text |-> err_str.value])
    ELSE IF waiter.status # 0
    THEN Err([msg |-> "crictl status is unsuccessful", args |-> args,
              status |-> waiter.status])
    ELSE Ok(Unit)

\* check_stderr with the emptiness test left out: only unreadable bytes fail.
check_stderr_unread(args, waiter) ==
    LET err_str == read_to_string(waiter.stderr) IN
    IF ~err_str.ok
    THEN Err([msg |-> "stderr read error - failed to execute crictl",
              args |-> args, cause |-> err_str.error])
    ELSE Ok(Unit)

\* The standard-error step: the bytes must be text, and the text empty.
\* The exit status in waiter is not looked at.
check_stderr(args, waiter) ==
    LET err_str == read_to_string(waiter.stderr) IN
    IF ~err_str.ok
    THEN Err([msg |-> "stderr read error - failed to execute crictl",
              args |-> args, cause |-> err_str.error])
    ELSE IF err_str.value # <<>>
    THEN Err([msg |-> "stderr not empty - failed to execute crictl",
              args |-> args, text |-> err_str.value])
    ELSE Ok(Unit)

\* read_stdout by String::from_utf8_lossy: bytes that are not UTF-8 are
\* replaced and the text is returned.
read_stdout_lossy(args, waiter) ==
    Ok([i \in 1..Len(waiter.stdout) |->
           IF waiter.stdout[i].k = "byte" THEN Word("\\ufffd") ELSE waiter.stdout[i]])

\* The standard-output step: the bytes as text.
read_stdout(args, waiter) ==
    LET ok_str == read_to_string(waiter.stdout) IN
    IF ~ok_str.ok
    THEN Err([msg |-> "stdout error - failed to execute crictl",
              args |-> args, cause |-> ok_str.error])
    ELSE Ok(ok_str.value)

\* run_command_text with standard output read before standard error is
\* looked at.
run_command_text_stdout_first(args, path, os) ==
    LET exec == [program |-> "crictl", PATH |-> path, args |-> args]
        log == <<[ev |-> "running", args |-> args, path |-> path]>>
        cmd == spawn(args, os)
        waiter == wait_with_output(args, cmd.value)
        text == read_stdout(args, waiter.value)
        checked == check_stderr(args, waiter.value)
        result ==
            IF ~cmd.ok THEN cmd
            ELSE IF ~waiter.ok THEN waiter
            ELSE IF ~text.ok THEN text
            ELSE IF ~checked.ok THEN checked
            ELSE text
        stages ==
            <<"spawn">> \o
            (IF ~cmd.ok THEN <<>> ELSE <<"wait">> \o
            (IF ~waiter.ok THEN <<>> ELSE <<"stdout_text">> \o
            (IF ~text.ok THEN <<>> ELSE <<"stderr_text">> \o
            (IF ~read_to_string(waiter.value.stderr).ok THEN <<>>
             ELSE <<"stderr_empty">>))))
    IN [exec |-> exec, log |-> log, result |-> result, stages |-> stages]

\* run_command_text: spawn, wait, the standard-error step, the
\* standard-output step; the first error is returned (the ? and return Err
\* of the source) and the steps after it are not taken.  stages lists the
\* steps taken.
run_command_text(args, path, os) ==
    LET exec == [program |-> "crictl", PATH |-> path, args |-> args]
        log == <<[ev |-> "running", args |-> args, path |-> path]>>
        cmd == spawn(args, os)
        waiter == wait_with_output(args, cmd.value)
        checked == check_stderr(args, waiter.value)
        result ==
            IF ~cmd.ok THEN cmd
            ELSE IF ~waiter.ok THEN waiter
            ELSE IF ~checked.ok THEN checked
            ELSE read_stdout(args, waiter.value)
        stages ==
            <<"spawn">> \o
            (IF ~cmd.ok THEN <<>> ELSE <<"wait">> \o
            (IF ~waiter.ok THEN <<>> ELSE <<"stderr_text">> \o
            (IF ~read_to_string(waiter.value.stderr).ok THEN <<>>
             ELSE <<"stderr_empty">> \o
            (IF ~checked.ok THEN <<>> ELSE <<"stdout_text">>))))
    IN [exec |-> exec, log |-> log, result |-> result, stages |-> stages]

\* run_command: the text of run_command_text, then slice_to_value.
run_command(args, path, os) ==
    LET l_args == args
        str_ok == run_command_text(args, path, os)
    IN IF ~str_ok.result.ok THEN str_ok
       ELSE [str_ok EXCEPT
                !.result = slice_to_value(as_bytes(str_ok.result.value), l_args),
                !.stages = @ \o <<"parse">>]

(***************************************************************************)
(* The queries.  Each gives the record of run_command_text with the result *)
(* the query returns.                                                      *)
(***************************************************************************)
pod_output_args(self, hostname) ==
    IF self.config_path.some
    THEN <<"-c", self.config_path.v, "pods", "--name", hostname, "-o", "json">>
    ELSE <<"pods", "--name", hostname, "-o", "json">>

pod(self, hostname, os) ==
    LET pod_list == run_command(pod_output_args(self, hostname), self.bin_path, os) IN
    IF ~pod_list.result.ok THEN pod_list
    ELSE LET p == get0(Index(pod_list.result.value, "items")) IN
         [pod_list EXCEPT
             !.result = IF p.some THEN Ok(p.v)
                        ELSE Err([msg |-> "failed to create pod at index 0"]),
             !.stages = @ \o <<"select">>]

inspect_pod_args(self, pod_id) ==
    IF self.config_path.some
    THEN <<"-c", self.config_path.v, "inspectp", pod_id>>
    ELSE <<"inspectp", pod_id>>

inspect_pod(self, pod_id, os) ==
    run_command(inspect_pod_args(self, pod_id), self.bin_path, os)

ps_output_args(self, pod_id) ==
    IF self.config_path.some
    THEN <<"-c", self.config_path.v, "ps", "-o", "json", "-p", pod_id>>
    ELSE <<"ps", "-o", "json", "-p", pod_id>>

pod_containers(self, pod_id, os) ==
    run_command(ps_output_args(self, pod_id), self.bin_path, os)

inspect_container_args(self, container_id) ==
    IF self.config_path.some
    THEN <<"-c", self.config_path.v, "inspect", container_id>>
    ELSE <<"inspect", container_id>>

inspect_container(self, container_id, os) ==
    run_command(inspect_container_args(self, container_id), self.bin_path, os)

image_output_args(self) ==
    LET img_cmd == Str(fmt(self.image_command)) IN
    IF self.config_path.some
    THEN <<"-c", self.config_path.v, img_cmd, "-o", "json">>
    ELSE <<img_cmd, "-o", "json">>

\* The inner loop of image: the digests of one record, in order.  Gives
\* whether one matched and the trace records written on the way.
RECURSIVE scan_digests(_, _, _, _)
scan_digests(arr, i, line_obj_id, image_ref) ==
    IF i > Len(arr) THEN [matched |-> FALSE, log |-> <<>>]
    ELSE LET digest_str == unwrap_or_default(as_str(arr[i]))
             here == <<[ev |-> "Matching repoDigests", digest |-> digest_str,
                        ref |-> image_ref]>>
         IN IF digest_str = image_ref
            THEN [matched |-> TRUE,
                  log |-> here \o <<[ev |-> "MATCHED", id |-> line_obj_id,
                                     ref |-> image_ref]>>]
            ELSE LET rest == scan_digests(arr, i + 1, line_obj_id, image_ref) IN
                 [rest EXCEPT !.log = here \o @]

\* The outer loop of image: the records of the images array, in order.
RECURSIVE scan_images(_, _, _, _)
scan_images(img_lines, i, image_ref, log_args) ==
    IF i > Len(img_lines)
    THEN [result |-> Err([msg |-> "no images matched in crictl img",
                          args |-> log_args]),
          log |-> <<>>]
    ELSE LET line_obj == img_lines[i]
             line_obj_id == unwrap_or_default(as_str(Index(line_obj, "id")))
             arr == as_array(Index(line_obj, "repoDigests"))
             here == <<[ev |-> "Matching", id |-> line_obj_id, ref |-> image_ref]>>
             inner == scan_digests(arr.v, 1, line_obj_id, image_ref)
             digests == IF arr.some
                        THEN [inner EXCEPT !.log =
                                 <<[ev |-> "Matching inspecting repoDigests",
                                    arr |-> arr.v]>> \o @]
                        ELSE [matched |-> FALSE, log |-> <<>>]
         IN IF line_obj_id = image_ref
            THEN [result |-> Ok(line_obj),
                  log |-> here \o <<[ev |-> "MATCHED", id |-> line_obj_id,
                                     ref |-> image_ref]>>]
            ELSE IF digests.matched
            THEN [result |-> Ok(line_obj), log |-> here \o digests.log]
            ELSE LET rest == scan_images(img_lines, i + 1, image_ref, log_args) IN
                 [rest EXCEPT !.log = here \o digests.log \o @]

image(self, image_ref, os) ==
    LET log_args == image_output_args(self)
        image_list == run_command(image_output_args(self), self.bin_path, os)
    IN IF ~image_list.result.ok THEN image_list
       ELSE LET img_lines == as_array(Index(image_list.result.value, "images")) IN
            IF img_lines.some
            THEN LET scan == scan_images(img_lines.v, 1, image_ref, log_args) IN
                 [image_list EXCEPT
                     !.result = scan.result,
                     !.stages = @ \o <<"select">>,
                     !.log = @ \o <<[ev |-> "Found", n |-> Len(img_lines.v)]>>
                               \o scan.log]
            ELSE [image_list EXCEPT
                     !.result = Err([msg |-> "no images found in crictl img",
                                     args |-> log_args]),
                     !.stages = @ \o <<"select">>]

log_output_args(self, container_id) ==
    IF self.config_path.some
    THEN <<"-c", self.config_path.v, "logs", container_id>>
    ELSE <<"logs", container_id>>

logs(self, container_id, os) ==
    run_command_text(log_output_args(self, container_id), self.bin_path, os)

\* tail_output_args with the tail flag pushed after the container id.
tail_output_args_flag_last(self, container_id, line_count) ==
    LET tailoption == "--tail=" \o ToString(line_count) IN
    IF self.config_path.some
    THEN <<"-c", self.config_path.v, "logs", container_id, tailoption>>
    ELSE <<"logs", container_id, tailoption>>

tail_output_args(self, container_id, line_count) ==
    LET tailoption == "--tail=" \o ToString(line_count) IN
    IF self.config_path.some
    THEN <<"-c", self.config_path.v, "logs", tailoption, container_id>>
    ELSE <<"logs", tailoption, container_id>>

tail_logs(self, container_id, line_count, os) ==
    run_command_text(tail_output_args(self, container_id, line_count),
                     self.bin_path, os)

\* Cli::append_bin_path: the search path after the call.
append_bin_path(self, path) == self.bin_path \o internal(path)

(***************************************************************************)
(* The inputs the callers and the tool are drawn from.                     *)
(***************************************************************************)
ConfigPaths == {None, Some("/etc/crictl.yaml")}
InitPaths == {DefaultBinPath, <<"/mock/iks">>}
Names == {"tests", ""}
Refs == {"sha256:3b8a", "quay.io/seg@sha256:0630", ""}
Segments == {<<"/my/path">>, <<":", "/my/path2">>, <<>>, <<":">>,
             <<"/a", ":", "/b">>}

Pod1 == JObj("id" :> JStr("51cd8b") @@ "state" :> JStr("SANDBOX_READY"))
Pod2 == JObj("id" :> JStr("134b58"))
PodRecords == {Pod1, Pod2}

\* Image records: matched by id, matched through repoDigests, without an
\* id, with an id that differs in case only, and with fields of other types.
Image1 == JObj("id" :> JStr("sha256:3b8a") @@ "repoDigests" :> JArr(<<>>)
               @@ "size" :> JStr("338054458"))
Image2 == JObj("id" :> JStr("sha256:0e04")
               @@ "repoDigests" :> JArr(<<JStr("quay.io/seg@sha256:0630"),
                                          JStr("sha256:3b8a")>>)
               @@ "size" :> JStr("10229047"))
Image3 == JObj("repoDigests" :> JArr(<<JNull, JStr("quay.io/seg@sha256:0630")>>))
Image4 == JObj("id" :> JStr("SHA256:3B8A"))
Image5 == JObj("id" :> JNum("7") @@ "repoDigests" :> JStr("sha256:3b8a"))
Image6 == JObj("id" :> JStr(""))
ImageRecords == {Image1, Image2, Image3, Image4, Image5, Image6}

SeqsUpTo(set, n) == UNION {[1..m -> set] : m \in 0..n}

Documents ==
    {JObj("items" :> JArr(a)) : a \in SeqsUpTo(PodRecords, MaxItems)}
    \cup {JObj("images" :> JArr(a)) : a \in SeqsUpTo(ImageRecords, MaxImages)}
    \cup {JObj(NoFields), JNull, JArr(<<Pod1>>),
          JObj("items" :> JObj("0" :> Pod1)), JObj("items" :> JStr("51cd8b")),
          JObj("images" :> JNull), JObj("images" :> JObj("0" :> Image1)),
          JObj("info" :> JObj("pid" :> JNum("14017")))}

\* The output of the test of big data: one byte more than a pipe holds.
BigData == [i \in 1..PipeBuf |-> Word("a")] \o <<WS>>

\* Standard output: a document followed by a newline, plain log text,
\* nothing, and text that is no document.
Stdouts ==
    {Render(d) \o <<WS>> : d \in Documents}
    \cup {<<>>, <<WS>>, <<Word("A LOG"), WS>>, <<WS, S("a"), WS>>, BigData,
          <<P("{"), S("items"), P(":"), P("[")>>,
          <<P("{"), S("items"), P(":"), P("["), S("a"), P(","), P("]"), P("}")>>,
          <<P("{"), S("items"), P("["), P("]"), P("}")>>,
          <<P("{"), P("}"), Word("x")>>,
          <<BadByte>>, <<P("{"), P("}"), BadByte>>}

Stderrs == {<<>>, <<WS>>, <<Word("An error message"), WS>>, <<BadByte>>}
Statuses == {0, 1}

OsRuns ==
    {[spawn |-> TRUE, wait |-> TRUE, status |-> st, stdout |-> out, stderr |-> err] :
        st \in Statuses, out \in Stdouts, err \in Stderrs}
    \cup {[spawn |-> FALSE, wait |-> FALSE, status |-> 0, stdout |-> <<>>, stderr |-> <<>>],
          [spawn |-> TRUE, wait |-> FALSE, status |-> 0, stdout |-> <<>>, stderr |-> <<>>]}

char_to_uppercase(ch) ==
    IF \E i \in 1..Len(Lower) : Lower[i] = ch
    THEN Upper[CHOOSE i \in 1..Len(Lower) : Lower[i] = ch]
    ELSE ch

CaseVariants(w) ==
    {[i \in 1..Len(w) |-> IF m[i] THEN char_to_uppercase(w[i]) ELSE w[i]] :
        m \in [1..Len(w) -> BOOLEAN]}

Words == {<<"i", "m", "g">>, <<"i", "m", "a", "g", "e", "s">>,
          <<"i", "m", "a", "g", "e">>, <<"i", "m", "g", "s">>,
          <<"a", "d", "s", "f">>, <<" ", "i", "m", "g">>, <<>>}

Texts == UNION {CaseVariants(w) : w \in Words}

(***************************************************************************)
(* State.  call is the query that has returned and whose result the caller *)
(* still holds; previous is the query before it when the caller made the   *)
(* same query again; running holds, for each caller that has borrowed the  *)
(* configuration (&Cli), the query the caller is in or has the result of;  *)
(* appended is the history of append_bin_path calls; selector is the last  *)
(* ImageCommand conversion.                                                *)
(***************************************************************************)
NoCall == [op |-> "none"]

\* The callers that share the configuration.
Callers == {"a", "b"}

\* What the callers that share the configuration ask for, and what the tool
\* does for them.
SharedInputs(op) ==
    CASE op = "pod" -> {[hostname |-> "tests"]}
      [] op = "inspect_pod" -> {[pod_id |-> "tests"]}
      [] op = "pod_containers" -> {[pod_id |-> "tests"]}
      [] op = "inspect_container" -> {[container_id |-> "tests"]}
      [] op = "image" -> {[image_ref |-> "sha256:3b8a"]}
      [] op = "logs" -> {[container_id |-> "tests"]}
      [] op = "tail_logs" -> {[container_id |-> "tests", line_count |-> 0]}

SharedRuns ==
    {os \in OsRuns :
        /\ os.spawn /\ os.wait /\ os.status = 0
        /\ os.stdout = Render(JObj("images" :> JArr(<<Image1>>))) \o <<WS>>
        /\ os.stderr \in {<<>>, <<Word("An error message"), WS>>}}

\* The query op of the configuration self.
Run(self, op, input, os) ==
    CASE op = "pod" -> pod(self, input.hostname, os)
      [] op = "inspect_pod" -> inspect_pod(self, input.pod_id, os)
      [] op = "pod_containers" -> pod_containers(self, input.pod_id, os)
      [] op = "inspect_container" -> inspect_container(self, input.container_id, os)
      [] op = "image" -> image(self, input.image_ref, os)
      [] op = "logs" -> logs(self, input.container_id, os)
      [] op = "tail_logs" -> tail_logs(self, input.container_id, input.line_count, os)
NoConversion == [op |-> "none"]

Called(op, input, os, r) ==
    [op |-> op, input |-> input, os |-> os, exec |-> r.exec, log |-> r.log,
     stages |-> r.stages, result |-> r.result]

Init ==
    /\ bin_path \in InitPaths
    /\ config_path \in ConfigPaths
    /\ image_command \in ImageCommand
    /\ call = NoCall
    /\ previous = NoCall
    /\ running = [c \in Callers |-> NoCall]
    /\ appended = [base |-> bin_path, segs |-> <<>>]
    /\ selector = NoConversion

\* A query that leaves the other image sub-command selected behind it.
FrameSwitchesCommand ==
    /\ image_command' = IF image_command = "Img" THEN "Images" ELSE "Img"
    /\ UNCHANGED <<bin_path, config_path, appended, selector>>

\* A query that puts the search path back to the default.
FrameResetsPath ==
    /\ bin_path' = DefaultBinPath
    /\ UNCHANGED <<config_path, image_command, appended, selector>>

\* A query borrows the configuration (&self): it is read and not written.
Frame == UNCHANGED <<bin_path, config_path, image_command, appended, selector>>

Pod ==
    /\ call = NoCall
    /\ \E hostname \in Names, os \in OsRuns :
          call' = Called("pod", [hostname |-> hostname], os, pod(Self, hostname, os))
    /\ Frame
    /\ UNCHANGED <<previous, running>>

InspectPod ==
    /\ call = NoCall
    /\ \E pod_id \in Names, os \in OsRuns :
          call' = Called("inspect_pod", [pod_id |-> pod_id], os, inspect_pod(Self, pod_id, os))
    /\ Frame
    /\ UNCHANGED <<previous, running>>

PodContainers ==
    /\ call = NoCall
    /\ \E pod_id \in Names, os \in OsRuns :
          call' = Called("pod_containers", [pod_id |-> pod_id], os,
                         pod_containers(Self, pod_id, os))
    /\ Frame
    /\ UNCHANGED <<previous, running>>

InspectContainer ==
    /\ call = NoCall
    /\ \E container_id \in Names, os \in OsRuns :
          call' = Called("inspect_container", [container_id |-> container_id], os,
                         inspect_container(Self, container_id, os))
    /\ Frame
    /\ UNCHANGED <<previous, running>>

Image ==
    /\ call = NoCall
    /\ \E image_ref \in Refs, os \in OsRuns :
          call' = Called("image", [image_ref |-> image_ref], os, image(Self, image_ref, os))
    /\ Frame
    /\ UNCHANGED <<previous, running>>

Logs ==
    /\ call = NoCall
    /\ \E container_id \in Names, os \in OsRuns :
          call' = Called("logs", [container_id |-> container_id], os, logs(Self, container_id, os))
    /\ Frame
    /\ UNCHANGED <<previous, running>>

TailLogs ==
    /\ call = NoCall
    /\ \E container_id \in Names, line_count \in 0..MaxTail, os \in OsRuns :
          call' = Called("tail_logs",
                         [container_id |-> container_id, line_count |-> line_count], os,
                         tail_logs(Self, container_id, line_count, os))
    /\ Frame
    /\ UNCHANGED <<previous, running>>

\* image made again by the caller that holds the result of image: the same
\* reference, and the tool prints what it printed before.
ImageAgain ==
    /\ call # NoCall /\ call.op = "image"
    /\ previous = NoCall
    /\ previous' = call
    /\ call' = Called("image", call.input, call.os,
                      image(Self, call.input.image_ref, call.os))
    /\ Frame
    /\ UNCHANGED running

\* The caller takes the result; the query's frame is gone.
Return ==
    /\ call # NoCall
    /\ call' = NoCall
    /\ previous' = NoCall
    /\ Frame
    /\ UNCHANGED running

\* The query q of a caller, returned with r after the tool did os.
Returned(q, os, r) ==
    [op |-> q.op, pc |-> "returned", input |-> q.input, self |-> q.self, os |-> os,
     exec |-> r.exec, log |-> r.log, stages |-> r.stages, result |-> r.result]

\* A caller that holds &Cli enters a query: the query reads the
\* configuration, builds the arguments and spawns the tool.
Begin(c) ==
    /\ running[c] = NoCall
    /\ \E op \in {"pod", "inspect_pod", "pod_containers", "inspect_container",
                   "image", "logs", "tail_logs"} :
          \E input \in SharedInputs(op) :
             running' = [running EXCEPT ![c] =
                            [op |-> op, pc |-> "spawned", input |-> input, self |-> Self]]
    /\ Frame
    /\ UNCHANGED <<call, previous>>

\* The tool of the caller's query exits and the query returns its result.
End(c) ==
    /\ running[c] # NoCall /\ running[c].pc = "spawned"
    /\ \E os \in SharedRuns :
          running' = [running EXCEPT ![c] =
                         Returned(@, os, Run(@.self, @.op, @.input, os))]
    /\ Frame
    /\ UNCHANGED <<call, previous>>

\* The caller is done with the result and gives up its borrow.
Drop(c) ==
    /\ running[c] # NoCall /\ running[c].pc = "returned"
    /\ running' = [running EXCEPT ![c] = NoCall]
    /\ Frame
    /\ UNCHANGED <<call, previous>>

\* append_bin_path takes &mut self: no caller holds a borrow.
AppendBinPath ==
    /\ Len(appended.segs) < MaxAppends
    /\ \A c \in Callers : running[c] = NoCall
    /\ \E path \in Segments :
          /\ bin_path' = append_bin_path(Self, path)
          /\ appended' = [appended EXCEPT !.segs = Append(@, path)]
    /\ UNCHANGED <<config_path, image_command, call, previous, running, selector>>

FromStr ==
    /\ \E input \in Texts \cup {fmt(c) : c \in ImageCommand} :
          selector' = [op |-> "from_str", input |-> input, result |-> from_str(input)]
    /\ UNCHANGED <<bin_path, config_path, image_command, call, previous, running,
                 appended>>

Display ==
    /\ \E cmd \in ImageCommand :
          selector' = [op |-> "fmt", cmd |-> cmd, text |-> fmt(cmd)]
    /\ UNCHANGED <<bin_path, config_path, image_command, call, previous, running,
                 appended>>

Query ==
    \/ Pod
    \/ InspectPod
    \/ PodContainers
    \/ InspectContainer
    \/ Image
    \/ Logs
    \/ TailLogs
    \/ Return

Convert ==
    \/ FromStr
    \/ Display

\* image, and image made again.
Repeat ==
    \/ Image
    \/ ImageAgain
    \/ Return

\* The queries of the callers that share the configuration, interleaved,
\* and the appends of its owner.
Shared ==
    \/ \E c \in Callers : Begin(c)
    \/ \E c \in Callers : End(c)
    \/ \E c \in Callers : Drop(c)
    \/ AppendBinPath

Next ==
    \/ Query
    \/ ImageAgain
    \/ Shared
    \/ Convert

\* Every operation, in any order.
Spec == Init /\ [][Next]_vars

\* The queries of one caller on a configuration that is not changed.
SpecQuery == Init /\ [][Query]_vars

\* One caller that makes image twice in a row.
SpecRepeat == Init /\ [][Repeat]_vars

\* Cli::default(): the configuration as constructed.
InitDefault ==
    /\ Init
    /\ bin_path = DefaultBinPath
    /\ config_path = None
    /\ image_command = "Img"

\* Several callers on one configuration.
SpecShared == InitDefault /\ [][Shared]_vars

\* The search path under append_bin_path.
SpecPath == Init /\ [][AppendBinPath]_vars

\* The ImageCommand conversions.
SpecSelector == Init /\ [][Convert]_vars

(***************************************************************************)
(* Properties.                                                             *)
(***************************************************************************)
Queries == {"pod", "inspect_pod", "pod_containers", "inspect_container",
            "image", "logs", "tail_logs"}
JsonQueries == Queries \ {"logs", "tail_logs"}

\* The bytes are valid UTF-8.
IsText(bytes) == \A i \in 1..Len(bytes) : bytes[i].k # "byte"

\* The child of the query in call was spawned and waited for.
Ran == call.op \in Queries /\ call.os.spawn /\ call.os.wait

\* C1: for every query and configuration, when the tool's standard-error
\* text is not empty the query returns the error "stderr not empty - failed
\* to execute crictl" with the exact argument list and the whole
\* standard-error text, whatever the tool wrote to standard-output.
C1_StderrNotEmpty ==
    (Ran /\ IsText(call.os.stderr) /\ call.os.stderr # <<>>)
        => call.result = Err([msg |-> "stderr not empty - failed to execute crictl",
                              args |-> call.exec.args,
                              text |-> call.os.stderr])

\* A pod query whose tool wrote a document with one pod to standard-output
\* and a message to standard-error, under a configuration with a config path.
C1_Witness ==
    /\ Ran
    /\ call.op = "pod"
    /\ config_path.some
    /\ call.os.stdout = Render(JObj("items" :> JArr(<<Pod1>>))) \o <<WS>>
    /\ call.os.stderr = <<Word("An error message"), WS>>
    /\ ~call.result.ok
    /\ call.result.error.msg = "stderr not empty - failed to execute crictl"

\* The child ran, wrote nothing to standard-error and wrote text to
\* standard-output.
CleanRun == Ran /\ call.os.stderr = <<>> /\ IsText(call.os.stdout)

\* The decode-failure error for the query in call.
DecodeFailure ==
    Err([msg |-> "failed to create output from slice for",
         args |-> call.exec.args,
         diag |-> from_slice(call.os.stdout).error])

\* C2 as stated: for all seven queries, standard-output text that is not
\* parseable as JSON with empty standard-error fails with the decode-failure
\* error holding the argument list and the parser's diagnostic.
C2_AllQueriesDecode ==
    (CleanRun /\ ~from_slice(call.os.stdout).ok)
        => call.result = DecodeFailure

\* C2 amended: for pod, inspect_pod, pod_containers, inspect_container and
\* image, standard-output that is text but not parseable as JSON, with empty
\* standard-error, fails with the decode-failure error holding the argument
\* list and the parser's diagnostic; logs and tail_logs return that text.
C2_JsonQueriesDecode ==
    (CleanRun /\ ~from_slice(call.os.stdout).ok)
        => IF call.op \in JsonQueries
           THEN call.result = DecodeFailure
           ELSE call.result = Ok(call.os.stdout)

\* A pod query whose tool printed a newline only.
C2_Witness ==
    /\ CleanRun
    /\ call.op = "pod"
    /\ call.os.stdout = <<WS>>
    /\ ~call.result.ok
    /\ call.result.error.msg = "failed to create output from slice for"
    /\ call.result.error.diag.msg = "EOF while parsing a value"

\* The tool's standard-output was decoded: the query is one that decodes,
\* the run was clean and the text is a JSON document.
Decoded == CleanRun /\ call.op \in JsonQueries /\ from_slice(call.os.stdout).ok

\* The document the tool printed.
Document == from_slice(call.os.stdout).value

\* The named field of the document is there and is an array.
HasArray(field) ==
    /\ Document.t = "object"
    /\ field \in DOMAIN Document.o
    /\ Document.o[field].t = "array"

\* record's id field is the string ref.
IdEquals(record, ref) ==
    /\ record.t = "object"
    /\ "id" \in DOMAIN record.o
    /\ record.o["id"].t = "string"
    /\ record.o["id"].s = ref

\* ref is an element of record's repoDigests array.
InRepoDigests(record, ref) ==
    /\ record.t = "object"
    /\ "repoDigests" \in DOMAIN record.o
    /\ record.o["repoDigests"].t = "array"
    /\ \E j \in 1..Len(record.o["repoDigests"].a) :
          /\ record.o["repoDigests"].a[j].t = "string"
          /\ record.o["repoDigests"].a[j].s = ref

Matches(record, ref) == IdEquals(record, ref) \/ InRepoDigests(record, ref)

\* The number of records the scan of image looked at: one "Matching" trace
\* record is written for each.
Examined == Cardinality({n \in 1..Len(call.log) : call.log[n].ev = "Matching"})

\* The first record of the images array that matches ref is the one
\* returned, and the scan stops there.
FirstMatchReturned ==
    LET images == Document.o["images"].a
        ref == call.input.image_ref
    IN \A i \in 1..Len(images) :
          (Matches(images[i], ref) /\ \A j \in 1..(i - 1) : ~Matches(images[j], ref))
              => call.result = Ok(images[i]) /\ Examined = i

\* C3: when the decoded output has an images array, image(ref) returns the
\* record at the lowest index whose id equals ref or whose repoDigests hold
\* ref, and examines no record after it; a repoDigests match at a lower
\* index wins over an id match at a higher index.
C3_FirstMatch ==
    (Decoded /\ call.op = "image" /\ HasArray("images")) => FirstMatchReturned

\* C3 for references that are not the empty string: this much of the claim
\* holds.
C3_FirstMatchOfNonEmptyRef ==
    (Decoded /\ call.op = "image" /\ HasArray("images") /\ call.input.image_ref # "")
        => FirstMatchReturned

\* A record matched through repoDigests is returned although the next
\* record matches by id.
C3_Witness ==
    /\ Decoded
    /\ call.op = "image"
    /\ call.input.image_ref = "sha256:3b8a"
    /\ Document = JObj("images" :> JArr(<<Image2, Image1>>))
    /\ call.result = Ok(Image2)
    /\ Examined = 1

NoImagesMatched ==
    Err([msg |-> "no images matched in crictl img", args |-> call.exec.args])

NoImagesFound ==
    Err([msg |-> "no images found in crictl img", args |-> call.exec.args])

\* C4: when the output decodes, image(ref) fails with "no images matched"
\* and the argument list exactly when images is an array, empty or not, none
\* of whose records matches ref, and with "no images found" exactly when
\* images is absent or no array; it does not succeed in either case.
C4_NoImageErrors ==
    (Decoded /\ call.op = "image")
        => LET none == /\ HasArray("images")
                       /\ \A i \in 1..Len(Document.o["images"].a) :
                             ~Matches(Document.o["images"].a[i], call.input.image_ref)
           IN /\ (call.result = NoImagesMatched) <=> none
              /\ (call.result = NoImagesFound) <=> ~HasArray("images")
              /\ (none \/ ~HasArray("images")) => ~call.result.ok

\* C4 for references that are not the empty string: this much of the claim
\* holds.
C4_NoImageErrorsOfNonEmptyRef ==
    (call.op = "image" /\ call.input.image_ref = "") \/ C4_NoImageErrors

\* C5: when the output decodes, pod(hostname) returns element 0 of the
\* items array as the tool reported it, whatever follows it; when items is
\* absent, no array or an empty array it fails with exactly "failed to
\* create pod at index 0".
C5_FirstPod ==
    (Decoded /\ call.op = "pod")
        => IF HasArray("items") /\ Len(Document.o["items"].a) > 0
           THEN call.result = Ok(Document.o["items"].a[1])
           ELSE call.result = Err([msg |-> "failed to create pod at index 0"])

\* A pod query whose tool reported two different pods.
C5_Witness ==
    /\ Decoded
    /\ call.op = "pod"
    /\ Document = JObj("items" :> JArr(<<Pod1, Pod2>>))
    /\ call.result = Ok(Pod1)
    /\ Index(call.result.value, "id") = JStr("51cd8b")

\* A pod query whose tool reported an items field that is no array.
C5_WitnessNoArray ==
    /\ Decoded
    /\ call.op = "pod"
    /\ Document = JObj("items" :> JObj("0" :> Pod1))
    /\ call.result = Err([msg |-> "failed to create pod at index 0"])

\* The fixed argument vector of the query in call, as the claim lists it.
BaseVector ==
    CASE call.op = "pod" -> <<"pods", "--name", call.input.hostname, "-o", "json">>
      [] call.op = "inspect_pod" -> <<"inspectp", call.input.pod_id>>
      [] call.op = "pod_containers" -> <<"ps", "-o", "json", "-p", call.input.pod_id>>
      [] call.op = "inspect_container" -> <<"inspect", call.input.container_id>>
      [] call.op = "image" ->
            <<IF image_command = "Img" THEN "img" ELSE "images", "-o", "json">>
      [] call.op = "logs" -> <<"logs", call.input.container_id>>
      [] call.op = "tail_logs" ->
            <<"logs", "--tail=" \o ToString(call.input.line_count),
              call.input.container_id>>

\* C6: for every query and configuration the argument vector handed to the
\* tool is the query's base vector, with the tail flag before the container
\* id, preceded by "-c" and the config path when one is set and by nothing
\* otherwise; the program is crictl and the arguments are passed as given.
C6_ArgumentVector ==
    call.op \in Queries
        => /\ call.exec.program = "crictl"
           /\ call.exec.args =
                 (IF config_path = None THEN <<>> ELSE <<"-c", config_path.v>>)
                    \o BaseVector

\* A tail_logs call under a configuration with a config path.
C6_Witness ==
    /\ call.op = "tail_logs"
    /\ config_path = Some("/etc/crictl.yaml")
    /\ call.input = [container_id |-> "tests", line_count |-> 1]
    /\ call.exec.args = <<"-c", "/etc/crictl.yaml", "logs", "--tail=1", "tests">>

\* An image call that uses the images sub-command, without a config path.
C6_WitnessImages ==
    /\ call.op = "image"
    /\ config_path = None
    /\ image_command = "Images"
    /\ call.exec.args = <<"images", "-o", "json">>

\* The search path the claim describes: base followed by each segment, a
\* separator put before those that do not start with one.
RECURSIVE Joined(_, _)
Joined(base, segs) ==
    IF segs = <<>> THEN base
    ELSE Joined(base \o (IF Head(segs) # <<>> /\ Head(segs)[1] = ":"
                         THEN Head(segs)
                         ELSE <<":">> \o Head(segs)),
                Tail(segs))

\* C7: after any sequence of append_bin_path calls the search path is the
\* path before them followed, in call order, by each segment with exactly
\* one separator put before it when it does not start with one and as given
\* when it does; what was there is neither altered nor reordered.
C7_AppendedPath ==
    /\ bin_path = Joined(appended.base, appended.segs)
    /\ Len(bin_path) >= Len(appended.base)
    /\ SubSeq(bin_path, 1, Len(appended.base)) = appended.base

\* The two appends of test_append_bin_path on the default path.
C7_Witness ==
    /\ appended.base = DefaultBinPath
    /\ appended.segs = << <<"/my/path">>, <<":", "/my/path2">> >>
    /\ bin_path = DefaultBinPath \o <<":", "/my/path", ":", "/my/path2">>

Img == <<"i", "m", "g">>
Images == <<"i", "m", "a", "g", "e", "s">>

\* C8: the selector has exactly two variants; a text parses to Img when it
\* is "img" in any mix of cases, to Images when it is "images" in any mix of
\* cases, and fails with the unit value otherwise; a variant renders as
\* "img" or "images" in lowercase, and the rendered text parses back to the
\* variant.
C8_Selector ==
    /\ Cardinality(ImageCommand) = 2
    /\ selector.op = "from_str"
          => selector.result =
                (IF selector.input \in CaseVariants(Img) THEN Ok("Img")
                 ELSE IF selector.input \in CaseVariants(Images) THEN Ok("Images")
                 ELSE Err(<<>>))
    /\ selector.op = "fmt"
          => selector.text = (IF selector.cmd = "Img" THEN Img ELSE Images)
    /\ \A c \in ImageCommand :
          (selector.op = "from_str" /\ selector.input = fmt(c))
              => selector.result = Ok(c)

\* "imG" parsed to Img, as in test_image_cmd_from_str.
C8_Witness ==
    /\ selector.op = "from_str"
    /\ selector.input = <<"i", "m", "G">>
    /\ selector.result = Ok("Img")

\* "IMAGES" parsed, "ADSF" refused, and a rendered variant parsed back.
C8_WitnessOthers ==
    \/ /\ selector.op = "from_str"
       /\ selector.input = <<"A", "D", "S", "F">>
       /\ selector.result = Err(Unit)
    \/ /\ selector.op = "from_str"
       /\ selector.input = fmt("Images")
       /\ selector.result = Ok("Images")

\* The query in call made again with the child doing os.
Again(os) ==
    CASE call.op = "pod" -> pod(Self, call.input.hostname, os)
      [] call.op = "inspect_pod" -> inspect_pod(Self, call.input.pod_id, os)
      [] call.op = "pod_containers" -> pod_containers(Self, call.input.pod_id, os)
      [] call.op = "inspect_container" ->
            inspect_container(Self, call.input.container_id, os)
      [] call.op = "image" -> image(Self, call.input.image_ref, os)
      [] call.op = "logs" -> logs(Self, call.input.container_id, os)
      [] call.op = "tail_logs" ->
            tail_logs(Self, call.input.container_id, call.input.line_count, os)

\* C9: the outcome of every query is independent of the child's exit
\* status: the same standard-output and standard-error give the same result
\* whatever the status, and a non-zero exit with empty standard-error and
\* parseable standard-output is a success.
C9_ExitStatusIgnored ==
    Ran => /\ \A st \in Statuses :
                Again([call.os EXCEPT !.status = st]).result = call.result
           /\ (call.os.status # 0 /\ Decoded
                  /\ call.op \in {"inspect_pod", "pod_containers", "inspect_container"})
                 => call.result = Ok(Document)
           /\ (call.os.status # 0 /\ CleanRun /\ call.op \in {"logs", "tail_logs"})
                 => call.result = Ok(call.os.stdout)

\* An inspect_pod query whose child exited with status 1 after printing a
\* document and nothing on standard-error.
C9_Witness ==
    /\ Ran
    /\ call.op = "inspect_pod"
    /\ call.os.status = 1
    /\ call.os.stderr = <<>>
    /\ call.os.stdout = Render(JObj("info" :> JObj("pid" :> JNum("14017")))) \o <<WS>>
    /\ call.result.ok

\* Every step of the query in call succeeded: spawn, wait, standard-error
\* read and empty, standard-output read, decoding where the query decodes,
\* and the query's own selection.
AllStepsSucceeded ==
    /\ CleanRun
    /\ call.op \in JsonQueries => from_slice(call.os.stdout).ok
    /\ call.op = "pod" => HasArray("items") /\ Len(Document.o["items"].a) > 0
    /\ call.op = "image" => HasArray("images")

\* The value a successful query returns is the whole decoded document, one
\* whole element of it, or the whole text.
WholeValue ==
    CASE call.op \in {"logs", "tail_logs"} -> call.result.value = call.os.stdout
      [] call.op = "pod" -> call.result.value = Document.o["items"].a[1]
      [] call.op = "image" ->
            \E i \in 1..Len(Document.o["images"].a) :
                call.result.value = Document.o["images"].a[i]
      [] OTHER -> call.result.value = Document

\* C10: every query ends in exactly one of two outcomes, a value or one
\* error, never both; a value is returned only when every step succeeded,
\* and it is then the fully decoded value (the text for logs and tail_logs).
C10_ValueOrError ==
    call.op \in Queries
        => /\ \/ DOMAIN call.result = {"ok", "value"} /\ call.result.ok
              \/ /\ DOMAIN call.result = {"ok", "error"}
                 /\ ~call.result.ok
                 /\ "msg" \in DOMAIN call.result.error
           /\ call.result.ok => AllStepsSucceeded /\ WholeValue
           /\ (AllStepsSucceeded /\ call.op # "image") => call.result.ok

\* A pod query that returned a value.
C10_Witness ==
    /\ call.op = "pod"
    /\ call.result.ok
    /\ call.result.value = Pod2

\* A query whose standard-output was not UTF-8 and that returned an error.
C10_WitnessError ==
    /\ Ran
    /\ call.op = "logs"
    /\ call.os.stderr = <<>>
    /\ ~IsText(call.os.stdout)
    /\ ~call.result.ok

\* C11: when logs or tail_logs has spawned the tool, has its output and the
\* standard-error stream is empty, the result is the text of standard output,
\* whole and unchanged: no byte is dropped, trimmed or decoded, whether the
\* output is empty or longer than a pipe holds.
TextQueries == {"logs", "tail_logs"}

C11_TextUnchanged ==
    (Ran /\ call.op \in TextQueries /\ call.os.stderr = <<>> /\ IsText(call.os.stdout))
        => call.result = Ok(call.os.stdout)

C11_Witness ==
    /\ Ran /\ call.op = "tail_logs" /\ call.os.stderr = <<>>
    /\ call.os.stdout = BigData /\ Len(call.os.stdout) > PipeBuf
    /\ call.result = Ok(BigData)

C11_WitnessEmpty ==
    /\ Ran /\ call.op = "logs" /\ call.os.stderr = <<>>
    /\ call.os.stdout = <<>> /\ call.result = Ok(<<>>)

C12_WitnessError ==
    /\ previous # NoCall /\ ~previous.result.ok
    /\ previous.result.error.msg = "no images matched in crictl img"
    /\ call.result = previous.result

\* The stages of a query, in the order of the claim.
StageOrder(op) ==
    <<"spawn", "wait", "stderr_text", "stderr_empty", "stdout_text">>
    \o (IF op \in JsonQueries THEN <<"parse">> ELSE <<>>)
    \o (IF op \in {"pod", "image"} THEN <<"select">> ELSE <<>>)

\* The stage fails on what the tool did in the query in call.  Whether the
\* selection of pod and image fails is not decided here.
StageFails(stage) ==
    CASE stage = "spawn" -> ~call.os.spawn
      [] stage = "wait" -> ~call.os.wait
      [] stage = "stderr_text" -> ~IsText(call.os.stderr)
      [] stage = "stderr_empty" -> call.os.stderr # <<>>
      [] stage = "stdout_text" -> ~IsText(call.os.stdout)
      [] stage = "parse" -> ~from_slice(call.os.stdout).ok
      [] stage = "select" -> FALSE

\* The error text a failure of the stage is reported with.
StageErrors(stage) ==
    CASE stage = "spawn" -> {"failed to execute crictl"}
      [] stage = "wait" -> {"failed to execute crictl"}
      [] stage = "stderr_text" -> {"stderr read error - failed to execute crictl"}
      [] stage = "stderr_empty" -> {"stderr not empty - failed to execute crictl"}
      [] stage = "stdout_text" -> {"stdout error - failed to execute crictl"}
      [] stage = "parse" -> {"failed to create output from slice for"}
      [] stage = "select" -> {"failed to create pod at index 0",
                              "no images matched in crictl img",
                              "no images found in crictl img"}

\* The position in the order of the first stage that fails, or the number
\* of stages when none before the selection fails.
FirstFailure ==
    LET order == StageOrder(call.op)
        failing == {i \in 1..Len(order) : StageFails(order[i])}
    IN IF failing = {} THEN Len(order)
       ELSE CHOOSE i \in failing : \A j \in failing : i <= j

\* C13: the stages of a query are taken in the fixed order spawn, wait,
\* standard error as text, standard error empty, standard output as text,
\* parse (not logs, tail_logs), selection (pod, image), up to the first
\* stage that fails and no further, and an error returned is the error of
\* that stage.  So standard error that is not empty wins over standard
\* output that cannot be read or parsed, and a parse failure wins over the
\* empty-result failures of pod and image.
C13_StageOrder ==
    call.op \in Queries =>
        LET order == StageOrder(call.op)
            last == order[FirstFailure]
        IN /\ call.stages = SubSeq(order, 1, FirstFailure)
           /\ StageFails(last) => ~call.result.ok
           /\ ~call.result.ok => /\ call.result.error.msg \in StageErrors(last)
                                 /\ last = "select" \/ StageFails(last)
           /\ (Ran /\ IsText(call.os.stderr) /\ call.os.stderr # <<>>)
                 => /\ ~call.result.ok
                    /\ call.result.error.msg = "stderr not empty - failed to execute crictl"
           /\ (CleanRun /\ call.op \in JsonQueries /\ ~from_slice(call.os.stdout).ok)
                 => /\ ~call.result.ok
                    /\ call.result.error.msg = "failed to create output from slice for"

\* Standard error is not empty and standard output is no text: the stages
\* stop at the emptiness test.
C13_Witness ==
    /\ Ran /\ call.os.stderr = <<Word("An error message"), WS>>
    /\ ~IsText(call.os.stdout)
    /\ call.stages = <<"spawn", "wait", "stderr_text", "stderr_empty">>
    /\ call.result.error.msg = "stderr not empty - failed to execute crictl"

\* pod on output that does not parse: the stages stop at the parse.
C13_WitnessParse ==
    /\ CleanRun /\ call.op = "pod" /\ ~from_slice(call.os.stdout).ok
    /\ call.stages = <<"spawn", "wait", "stderr_text", "stderr_empty", "stdout_text", "parse">>
    /\ call.result.error.msg = "failed to create output from slice for"

\* image through every stage.
C13_WitnessAll ==
    /\ call.op = "image" /\ call.result.ok
    /\ call.stages = StageOrder("image")

\* C14: a record is returned by image(ref) only if its id field is the
\* string ref, upper and lower case kept apart, or ref is an element of its
\* repoDigests array; this for every ref, the empty string included, and for
\* records whose id is absent or no string and whose repoDigests hold
\* elements that are no strings.
C14_ExactMatch ==
    (call.op = "image" /\ call.result.ok)
        => Matches(call.result.value, call.input.image_ref)

\* C14 for references that are not the empty string: this much of the claim
\* holds.
C14_ExactMatchOfNonEmptyRef ==
    (call.op = "image" /\ call.result.ok /\ call.input.image_ref # "")
        => Matches(call.result.value, call.input.image_ref)

\* The empty reference gets a record whose id is a number.
C14_WitnessNotAString ==
    /\ call.op = "image" /\ call.input.image_ref = ""
    /\ call.result = Ok(Image5)

\* The three fields of the configuration.
Config == <<bin_path, config_path, image_command>>

\* C15: no step of a query changes a field of the configuration, whether the
\* query succeeds or fails; a step that changes the configuration is an
\* append_bin_path, and it changes the search path alone.  So with the
\* queries of several callers interleaved, the configuration a query has
\* read is the configuration still, and the result a query returns is the
\* result of that query made alone on the configuration.
C15_QueriesFrame ==
    [][/\ running' # running => Config' = Config
       /\ Config' # Config =>
             /\ Len(appended'.segs) = Len(appended.segs) + 1
             /\ config_path' = config_path
             /\ image_command' = image_command
       /\ \A c \in Callers :
             running'[c] # NoCall =>
                /\ running'[c].self = Self'
                /\ (running'[c] # running[c] /\ running'[c].pc = "returned") =>
                      LET q == running'[c]
                          alone == Run(Self', q.op, q.input, q.os)
                      IN /\ q.result = alone.result
                         /\ q.exec = alone.exec]_vars

\* After an append, b has entered image and returned with an error while a
\* was in pod, and a has returned with another error.
C15_Witness ==
    /\ appended.segs # <<>>
    /\ running["a"].op = "pod" /\ running["b"].op = "image"
    /\ running["a"].pc = "returned" /\ running["b"].pc = "returned"
    /\ running["a"].os.stderr = <<>> /\ ~running["a"].result.ok
    /\ running["b"].os.stderr # <<>> /\ ~running["b"].result.ok
    /\ running["b"].exec.PATH = bin_path

\* a is in a query that b has entered and left with a record.
C15_WitnessInterleaved ==
    /\ running["a"] # NoCall /\ running["a"].pc = "spawned"
    /\ running["b"] # NoCall /\ running["b"].pc = "returned"
    /\ running["b"].op = "image" /\ running["b"].result = Ok(Image1)

====
